---- MODULE Spec2Model ----
(***************************************************************************)
(* Model of rolling_proto (src/src/main.rs, src/src/camera.rs): the Bevy   *)
(* app's Startup systems, the per-frame Update systems camera_control and  *)
(* aim_check, the FixedUpdate system normalize_aim, and the deferred       *)
(* command queue that creates and destroys target entities.                *)
(*                                                                         *)
(* Numbers.  f32 values are fixed-point integers:                          *)
(*   lengths, positions and direction components in 1/ONE (ONE = 1000),    *)
(*   quaternion components in 1/FINE (FINE = 10 * ONE),                    *)
(*   angles in hundredths of a radian (0.01 rad = 1).                      *)
(* Every product is rounded to the nearest unit (Rnd), standing for the    *)
(* rounding of an f32 operation.                                           *)
(***************************************************************************)
EXTENDS Integers, Sequences, FiniteSets

(* ------------------------------ bounds -------------------------------- *)
\* Frames of the Update schedule a behaviour runs.
MaxFrames == 2
\* FixedUpdate ticks that may run at the start of one frame.
MaxFixedTicks == 1

(* --------------------------- fixed point ------------------------------ *)
\* 1.0_f32 for lengths and direction components.
ONE == 1000
\* 1.0_f32 for quaternion components.
FINE == 10 * ONE

\* n / d rounded to the nearest integer (d > 0).
Rnd(n, d) == (2 * n + d) \div (2 * d)

RECURSIVE SqrtSearch(_, _, _)
SqrtSearch(n, lo, hi) ==
    IF lo >= hi THEN lo
    ELSE LET mid == (lo + hi + 1) \div 2
         IN  IF mid * mid <= n THEN SqrtSearch(n, mid, hi)
                               ELSE SqrtSearch(n, lo, mid - 1)
\* f32::sqrt on a fixed-point square: the nearest integer root of n >= 0.
ISqrt(n) ==
    LET r == SqrtSearch(n, 0, 4 * FINE)
    IN  IF n - r * r > r THEN r + 1 ELSE r

(* ------------------------------ Vec3 ---------------------------------- *)
VAdd(a, b) == <<a[1] + b[1], a[2] + b[2], a[3] + b[3]>>
VSub(a, b) == <<a[1] - b[1], a[2] - b[2], a[3] - b[3]>>
\* Vec3 * integer factor.
VScale(a, k) == <<a[1] * k, a[2] * k, a[3] * k>>
\* Each component divided by d, rounded.
VRnd(a, d) == <<Rnd(a[1], d), Rnd(a[2], d), Rnd(a[3], d)>>
\* Raw dot and cross products: the result carries both operands' scales.
Dot(a, b) == a[1] * b[1] + a[2] * b[2] + a[3] * b[3]
Cross(a, b) ==
    <<a[2] * b[3] - a[3] * b[2],
      a[3] * b[1] - a[1] * b[3],
      a[1] * b[2] - a[2] * b[1]>>

VEC3_ZERO == <<0, 0, 0>>
VEC3_X == <<ONE, 0, 0>>
VEC3_Y == <<0, ONE, 0>>
VEC3_NEG_Z == <<0, 0, -ONE>>

(* ------------------------------ Option -------------------------------- *)
None == <<>>
Some(v) == <<v>>
IsSome(o) == Len(o) = 1
Unwrap(o) == o[1]

(* ------------------------------- Quat --------------------------------- *)
\* <<x, y, z, w>> in 1/FINE.
QUAT_IDENTITY == <<0, 0, 0, FINE>>

\* sin and cos of half the angle a (hundredths of a radian), in 1/FINE:
\* the Taylor polynomials of sin(a/200) and cos(a/200), exact to the unit
\* for |a| <= 40.
HalfSin(a) == Rnd(FINE * a, 200) - Rnd(FINE * a * a * a, 48000000)
HalfCos(a) == FINE - Rnd(FINE * a * a, 80000)

\* glam Quat * Quat (Hamilton product).
QMul(a, b) ==
    <<Rnd(a[4] * b[1] + a[1] * b[4] + a[2] * b[3] - a[3] * b[2], FINE),
      Rnd(a[4] * b[2] - a[1] * b[3] + a[2] * b[4] + a[3] * b[1], FINE),
      Rnd(a[4] * b[3] + a[1] * b[2] - a[2] * b[1] + a[3] * b[4], FINE),
      Rnd(a[4] * b[4] - a[1] * b[1] - a[2] * b[2] - a[3] * b[3], FINE)>>

\* glam Quat::from_euler(EulerRot::YXZ, yaw, pitch, roll):
\* rotation about Y, then X, then Z.
QuatFromEulerYXZ(yaw, pitch, roll) ==
    QMul(QMul(<<0, HalfSin(yaw), 0, HalfCos(yaw)>>,
              <<HalfSin(pitch), 0, 0, HalfCos(pitch)>>),
         <<0, 0, HalfSin(roll), HalfCos(roll)>>)

\* glam Quat::mul_vec3: v (w^2 - b.b) + 2 b (v.b) + 2 w (b x v), the form
\* glam evaluates whether or not the quaternion is of unit length.
QMulVec3(q, v) ==
    LET b  == <<q[1], q[2], q[3]>>
        w  == q[4]
        k1 == Rnd(w * w - Dot(b, b), FINE)
        k2 == Rnd(2 * Dot(v, b), FINE)
        c  == VRnd(Cross(b, v), FINE)
    IN  VAdd(VAdd(VRnd(VScale(v, k1), FINE), VRnd(VScale(b, k2), FINE)),
             VRnd(VScale(c, 2 * w), FINE))

\* glam Quat::normalize.
QNormalize(q) ==
    LET len == ISqrt(q[1] * q[1] + q[2] * q[2] + q[3] * q[3] + q[4] * q[4])
    IN  <<Rnd(q[1] * FINE, len), Rnd(q[2] * FINE, len),
          Rnd(q[3] * FINE, len), Rnd(q[4] * FINE, len)>>

\* glam Quat::from_axis_angle(axis, angle): <<axis * sin(angle/2),
\* cos(angle/2)>>; the axis is used as given (it is not normalized here).
QuatFromAxisAngle(axis, angle) ==
    <<Rnd(axis[1] * HalfSin(angle), ONE),
      Rnd(axis[2] * HalfSin(angle), ONE),
      Rnd(axis[3] * HalfSin(angle), ONE),
      HalfCos(angle)>>

(* ----------------------------- constants ------------------------------ *)
\* Lengths are in world units here and multiplied by ONE where used;
\* DEADZONE_ADJ_THETA and the rates are in hundredths of a radian.
MAX_RADIUS == 20
TARGET_RADIUS == 1
TARGET_DISTANCE == 8
DEADZONE_RADIUS_SQUARED == 4
DEADZONE_ADJ_THETA == -2
\* CameraSettings::default().
pitch_rate == 1
roll_rate == 2
CameraSettingsPos == VEC3_ZERO
pitch_up_key == "ArrowUp"
pitch_down_key == "ArrowDown"
roll_left_key == "ArrowLeft"
roll_right_key == "ArrowRight"
\* debug_mov_rate = 0.01 in camera_control.
debug_mov_rate == ONE \div 100

\* The sets of pressed keys a frame's ButtonInput may hold in the model.
KeyChoices ==
    { {}, {"ArrowUp"}, {"ArrowDown"},
      {"ArrowUp", "ArrowDown", "ArrowLeft", "ArrowRight"},
      {"ArrowLeft"}, {"ArrowRight", "ArrowUp"},
      {"KeyC", "KeyS", "KeyT"}, {"KeyD", "KeyR", "KeyA"} }

\* Values random_normalized_vec3() may return (unit vectors in 1/ONE):
\* straight ahead of the default camera, 0.13 rad above that (the two
\* are closer to each other than the deadzone radius at TARGET_DISTANCE),
\* and one behind the camera.
RandomDirs ==
    { <<0, 0, -1000>>, <<0, 130, -992>>, <<360, 480, 800>> }

(* ---------------------------- components ------------------------------ *)
TargetStates == {"Active", "Next", "Ghost"}

\* MyAssets.arrow / MyAssets.arrow_faded material handles.
Arrow == "arrow"
ArrowFaded == "arrow_faded"

\* BoundingSphere::new(center, radius).
BoundingSphere(center, radius) == [center |-> center, radius |-> radius]

\* The rotation of a target's Transform, kept as the constructor call that
\* produced it: Quat::from_rotation_arc(Vec3::X, -pos.normalize()) or
\* Transform::align(Dir3::X, -pos.normalize(), Dir3::Y, aim_point).
RotationArc(pos) == [ctor |-> "from_rotation_arc", main |-> pos, secondary |-> None]
Align(pos, aim_point) == [ctor |-> "align", main |-> pos, secondary |-> Some(aim_point)]

\* fn orient_target(transform, aim_point): the new rotation.
orient_target(translation, aim_point) == Align(translation, aim_point)

\* MyCameraBundle::default() with the translation set by spawn_camera.
DefaultCamera ==
    [translation |-> CameraSettingsPos,
     rotation    |-> QUAT_IDENTITY,
     state       |-> [pitch |-> 0, roll |-> 0]]

\* Transform::right / up / forward: rotation * X, Y, -Z.
Right(cam) == QMulVec3(cam.rotation, VEC3_X)
Up(cam) == QMulVec3(cam.rotation, VEC3_Y)
Forward(cam) == QMulVec3(cam.rotation, VEC3_NEG_Z)

(* ---------------------------- spawn_target ---------------------------- *)
\* The deadzone test of spawn_target: a reference is given and the
\* candidate's squared distance to it is below DEADZONE_RADIUS_SQUARED.
InDeadzone(candidate, deadzone) ==
    /\ IsSome(deadzone)
    /\ LET btwn == VSub(candidate, Unwrap(deadzone))
       IN  Dot(btwn, btwn) < DEADZONE_RADIUS_SQUARED * ONE * ONE

\* Mutant: the corrective rotation is computed and not assigned.
DeadzoneAdjustDiscarded(candidate, deadzone) == candidate
\* The single corrective rotation of spawn_target.
DeadzoneAdjust(candidate, deadzone) ==
    LET btwn     == VSub(candidate, deadzone)
        rot_axis == VRnd(Cross(btwn, candidate), ONE)
        rot      == QuatFromAxisAngle(rot_axis, DEADZONE_ADJ_THETA)
    IN  QMulVec3(rot, candidate)

\* target_center of spawn_target for the drawn direction dir.
TargetCenter(dir, deadzone) ==
    LET candidate == VScale(dir, TARGET_DISTANCE)
    IN  IF InDeadzone(candidate, deadzone)
        THEN DeadzoneAdjust(candidate, Unwrap(deadzone))
        ELSE candidate

\* The material spawn_target gives a target of this state.
SpawnMaterial(state) == IF state = "Active" THEN Arrow ELSE ArrowFaded

\* The visibility spawn_target gives a target of this state.
SpawnVisibility(state) == IF state = "Ghost" THEN "Hidden" ELSE "Visible"

\* Mutant: the bounding sphere is built around the raw candidate, before
\* the deadzone adjustment.
spawn_target_bounding_first(state, aim_point, deadzone, dir) ==
    LET target_center == TargetCenter(dir, deadzone)
    IN  [state       |-> state,
         translation |-> target_center,
         rotation    |-> IF IsSome(aim_point)
                         THEN orient_target(target_center, Unwrap(aim_point))
                         ELSE RotationArc(target_center),
         material    |-> SpawnMaterial(state),
         visibility  |-> SpawnVisibility(state),
         bounding    |-> BoundingSphere(VScale(dir, TARGET_DISTANCE),
                                        TARGET_RADIUS * ONE)]

\* The Target bundle spawn_target builds; dir is the value drawn from
\* random_normalized_vec3().
spawn_target(state, aim_point, deadzone, dir) ==
    LET target_center == TargetCenter(dir, deadzone)
    IN  [state       |-> state,
         translation |-> target_center,
         rotation    |-> IF IsSome(aim_point)
                         THEN orient_target(target_center, Unwrap(aim_point))
                         ELSE RotationArc(target_center),
         material    |-> SpawnMaterial(state),
         visibility  |-> SpawnVisibility(state),
         bounding    |-> BoundingSphere(target_center, TARGET_RADIUS * ONE)]

\* One spawn_target call as the caller made it.
SpawnCall(id, state, aim_point, deadzone) ==
    [id |-> id, state |-> state, aim_point |-> aim_point, deadzone |-> deadzone]

(* ------------------------------ state --------------------------------- *)
VARIABLES
    pc,         \* the schedule being run: "Startup", "FixedUpdate", "Update", "Panicked"
    ran,        \* the systems of that schedule that have run in this pass
    frame,      \* Update passes completed
    nextId,     \* the next Entity id Commands::spawn reserves
    camera,     \* None, or Some of the camera entity's Transform and CameraAimState
    targets,    \* Entity id -> the Target bundle of each live target entity
    cmds,       \* the Commands queued and not yet applied
    keyLog,     \* the pressed-key set camera_control read, one per run
    applied,    \* None, or Some(<<yaw, pitch, roll>>) passed to rotate_local by the last camera_control
    ray,        \* None, or Some of the RayCast3d the last aim_check built
    hit,        \* the last aim_check's local `hit`
    spawnCalls, \* the spawn_target calls of the last system that made any
    panic,      \* None, or Some of the message of the panic! that ended the app
    before      \* history: `targets` as it was when the current frame began

vars ==
    <<pc, ran, frame, nextId, camera, targets, cmds, keyLog, applied, ray, hit,
      spawnCalls, panic, before>>

\* The systems of each schedule (fn main).
Systems(schedule) ==
    IF schedule = "Startup" THEN {"spawn_camera", "spawn_initial_targets"}
    ELSE IF schedule = "Update" THEN {"camera_control", "aim_check"}
    ELSE {}

\* The app before Startup runs: an empty world.
Init ==
    /\ pc = "Startup"
    /\ ran = {}
    /\ frame = 0
    /\ nextId = 0
    /\ camera = None
    /\ targets = <<>>
    /\ cmds = <<>>
    /\ keyLog = <<>>
    /\ applied = None
    /\ ray = None
    /\ hit = FALSE
    /\ spawnCalls = <<>>
    /\ panic = None
    /\ before = <<>>

(* ------------------------------ commands ------------------------------ *)
SpawnTargetCmd(id, bundle) == [op |-> "spawn", id |-> id, bundle |-> bundle]
SpawnCameraCmd(id, bundle) == [op |-> "spawn_camera", id |-> id, bundle |-> bundle]
DespawnCmd(id) == [op |-> "despawn", id |-> id, bundle |-> None]

\* f with key k set to v (k may be new).
Insert(f, k, v) == [x \in DOMAIN f \cup {k} |-> IF x = k THEN v ELSE f[x]]
\* f without key k.
Remove(f, k) == [x \in DOMAIN f \ {k} |-> f[x]]

\* One command applied to the world [camera, targets].
ApplyCommand(world, c) ==
    IF c.op = "spawn"
    THEN [world EXCEPT !.targets = Insert(world.targets, c.id, c.bundle)]
    ELSE IF c.op = "spawn_camera"
    THEN [world EXCEPT !.camera = Some(c.bundle)]
    ELSE [world EXCEPT !.targets = Remove(world.targets, c.id)]

RECURSIVE ApplyCommands(_, _)
\* The queue applied in order.
ApplyCommands(world, queue) ==
    IF queue = <<>> THEN world
    ELSE ApplyCommands(ApplyCommand(world, Head(queue)), Tail(queue))

(* ------------------------------ Startup ------------------------------- *)
\* fn spawn_camera: queues the camera bundle (and its crosshair child,
\* which takes the second id and has none of the components any query of
\* the model reads).
spawn_camera ==
    /\ pc = "Startup"
    /\ "spawn_camera" \notin ran
    /\ cmds' = Append(cmds, SpawnCameraCmd(nextId, DefaultCamera))
    /\ nextId' = nextId + 2
    /\ ran' = ran \cup {"spawn_camera"}
    /\ UNCHANGED <<pc, frame, camera, targets, keyLog, applied, ray, hit,
                   spawnCalls, panic, before>>

\* The aim_point and deadzone arguments spawn_initial_targets passes for
\* the Next and for the Active target.
NextReference(ghost_pos) == Some(ghost_pos)
\* Mutant: the Active target referred to the Ghost instead of the Next.
ActiveReferenceGhost(ghost_pos, next_pos) == Some(ghost_pos)
ActiveReference(ghost_pos, next_pos) == Some(next_pos)

\* The three bundles spawn_initial_targets builds, in creation order, for
\* the three directions drawn.
InitialBundles(d1, d2, d3) ==
    LET ghost  == spawn_target("Ghost", None, None, d1)
        nref   == NextReference(ghost.translation)
        next   == spawn_target("Next", nref, nref, d2)
        aref   == ActiveReference(ghost.translation, next.translation)
        active == spawn_target("Active", aref, aref, d3)
    IN  <<ghost, next, active>>

\* The three spawn_target calls as made, the first entity getting id.
InitialCalls(b, id) ==
    <<SpawnCall(id, "Ghost", None, None),
      SpawnCall(id + 1, "Next", NextReference(b[1].translation),
                NextReference(b[1].translation)),
      SpawnCall(id + 2, "Active",
                ActiveReference(b[1].translation, b[2].translation),
                ActiveReference(b[1].translation, b[2].translation))>>

\* fn spawn_initial_targets.
spawn_initial_targets ==
    /\ pc = "Startup"
    /\ "spawn_initial_targets" \notin ran
    /\ \E d1 \in RandomDirs, d2 \in RandomDirs, d3 \in RandomDirs :
         LET b == InitialBundles(d1, d2, d3)
         IN  /\ cmds' = cmds \o <<SpawnTargetCmd(nextId, b[1]),
                                  SpawnTargetCmd(nextId + 1, b[2]),
                                  SpawnTargetCmd(nextId + 2, b[3])>>
             /\ spawnCalls' = InitialCalls(b, nextId)
    /\ nextId' = nextId + 3
    /\ ran' = ran \cup {"spawn_initial_targets"}
    /\ UNCHANGED <<pc, frame, camera, targets, keyLog, applied, ray, hit, panic,
                   before>>

(* ---------------------------- FixedUpdate ----------------------------- *)
\* fn normalize_aim on the camera query: get_single_mut succeeds only on
\* a camera that exists.
normalize_aim(cam) ==
    IF IsSome(cam)
    THEN Some([Unwrap(cam) EXCEPT !.rotation = QNormalize(@)])
    ELSE cam

RECURSIVE NormalizeTicks(_, _)
NormalizeTicks(cam, n) ==
    IF n = 0 THEN cam ELSE NormalizeTicks(normalize_aim(cam), n - 1)

\* The fixed main loop at the start of a frame: FixedUpdate runs as many
\* times as fixed timesteps have elapsed, then Update begins.
RunFixedMainLoop ==
    /\ pc = "FixedUpdate"
    /\ frame < MaxFrames
    /\ \E ticks \in 0..MaxFixedTicks : camera' = NormalizeTicks(camera, ticks)
    /\ pc' = "Update"
    /\ before' = targets
    /\ UNCHANGED <<ran, frame, nextId, targets, cmds, keyLog, applied, ray, hit,
                   spawnCalls, panic>>

(* --------------------------- camera_control --------------------------- *)
Pressed(kbd, key) == key \in kbd
\* rate if the key is pressed, else 0.
Rate(kbd, key, rate) == IF Pressed(kbd, key) THEN rate ELSE 0

\* Mutant: the pitch-down key is not subtracted.
PitchTotalUpOnly(kbd) == Rate(kbd, pitch_up_key, pitch_rate)
\* pitch_total and roll_total of camera_control.
PitchTotal(kbd) ==
    Rate(kbd, pitch_up_key, pitch_rate) - Rate(kbd, pitch_down_key, pitch_rate)
RollTotal(kbd) ==
    Rate(kbd, roll_left_key, roll_rate) - Rate(kbd, roll_right_key, roll_rate)

\* debug_mov_u_total, debug_mov_r_total, debug_mov_f_total.
DebugMovUp(kbd) == Rate(kbd, "KeyS", debug_mov_rate) - Rate(kbd, "KeyR", debug_mov_rate)
DebugMovRight(kbd) == Rate(kbd, "KeyT", debug_mov_rate) - Rate(kbd, "KeyA", debug_mov_rate)
DebugMovFwd(kbd) == Rate(kbd, "KeyC", debug_mov_rate) - Rate(kbd, "KeyD", debug_mov_rate)

\* Mutant: pitch_total is added into the forward movement.
DebugTranslateByPitch(cam, kbd) ==
    LET mov_rt  == VScale(Right(cam), DebugMovRight(kbd))
        mov_up  == VScale(Up(cam), DebugMovUp(kbd))
        mov_fwd == VScale(Forward(cam),
                          DebugMovFwd(kbd) + PitchTotal(kbd) * debug_mov_rate)
    IN  VAdd(cam.translation, VRnd(VAdd(VAdd(mov_rt, mov_up), mov_fwd), ONE))
\* The translation after the debug free-fly move.
DebugTranslate(cam, kbd) ==
    IF DebugMovFwd(kbd) # 0 \/ DebugMovRight(kbd) # 0 \/ DebugMovUp(kbd) # 0
    THEN LET mov_rt  == VScale(Right(cam), DebugMovRight(kbd))
             mov_up  == VScale(Up(cam), DebugMovUp(kbd))
             mov_fwd == VScale(Forward(cam), DebugMovFwd(kbd))
         IN  VAdd(cam.translation, VRnd(VAdd(VAdd(mov_rt, mov_up), mov_fwd), ONE))
    ELSE cam.translation

\* The locals cam_pitch and cam_roll after the totals are added.
CamPitch(cam, kbd) == cam.state.pitch + PitchTotal(kbd)
CamRoll(cam, kbd) == cam.state.roll + RollTotal(kbd)

\* The argument of rotate_local, if camera_control calls it this frame.
LocalRotation(cam, kbd) ==
    IF PitchTotal(kbd) # 0 \/ RollTotal(kbd) # 0
    THEN Some(<<0, CamPitch(cam, kbd), CamRoll(cam, kbd)>>)
    ELSE None

\* Transform::rotate_local(Quat::from_euler(YXZ, e)) when e is Some.
RotateLocal(rotation, e) ==
    IF IsSome(e)
    THEN QMul(rotation, QuatFromEulerYXZ(Unwrap(e)[1], Unwrap(e)[2], Unwrap(e)[3]))
    ELSE rotation

\* The CameraAimState component after camera_control: cam_pitch and
\* cam_roll are locals copied from it and nothing assigns them back.
AimStateAfter(cam, kbd) == cam.state

\* The body of camera_control's loop for one camera.
CameraControlled(cam, kbd) ==
    [translation |-> DebugTranslate(cam, kbd),
     rotation    |-> RotateLocal(cam.rotation, LocalRotation(cam, kbd)),
     state       |-> AimStateAfter(cam, kbd)]

\* fn camera_control: the loop runs once per camera of the query.
camera_control ==
    /\ pc = "Update"
    /\ "camera_control" \notin ran
    /\ \E kbd \in KeyChoices :
         /\ camera' = IF IsSome(camera)
                      THEN Some(CameraControlled(Unwrap(camera), kbd))
                      ELSE camera
         /\ applied' = IF IsSome(camera)
                       THEN LocalRotation(Unwrap(camera), kbd)
                       ELSE None
         /\ keyLog' = Append(keyLog, kbd)
    /\ ran' = ran \cup {"camera_control"}
    /\ UNCHANGED <<pc, frame, nextId, targets, cmds, ray, hit, spawnCalls, panic,
                   before>>

(* ------------------------------ ray cast ------------------------------ *)
\* RayCast3d::new(origin, direction, max).
RayCast3d(origin, direction, max) ==
    [origin |-> origin, direction |-> direction, max |-> max]

\* The ray aim_check builds from the camera transform.
AimRay(cam) == RayCast3d(cam.translation, Forward(cam), MAX_RADIUS * ONE)

\* Mutant: the ray's max length is not applied.
IntersectsUnbounded(r, sphere) ==
    LET offset           == VSub(r.origin, sphere.center)
        projected        == Rnd(Dot(offset, r.direction), ONE)
        closest_point    == VSub(offset, VRnd(VScale(r.direction, projected), ONE))
        distance_squared == sphere.radius * sphere.radius
                              - Dot(closest_point, closest_point)
    IN  /\ distance_squared >= 0
        /\ ~(projected > 0 /\ projected * projected > distance_squared)

\* RayCast3d::intersects(&BoundingSphere), bevy_math's
\* sphere_intersection_at(...).is_some():
\*   offset = origin - center; projected = offset . direction;
\*   closest_point = offset - projected * direction;
\*   distance_squared = radius^2 - |closest_point|^2;
\*   None if distance_squared < 0
\*        or copysign(projected^2, -projected) < -distance_squared;
\*   else toi = -projected - sqrt(distance_squared); None if toi > max.
\* toi > max is decided on the squares, without the root.
Intersects(r, sphere) ==
    LET offset           == VSub(r.origin, sphere.center)
        projected        == Rnd(Dot(offset, r.direction), ONE)
        closest_point    == VSub(offset, VRnd(VScale(r.direction, projected), ONE))
        distance_squared == sphere.radius * sphere.radius
                              - Dot(closest_point, closest_point)
        behind           == projected > 0 /\ projected * projected > distance_squared
        over             == -projected - r.max
    IN  /\ distance_squared >= 0
        /\ ~behind
        /\ ~(over > 0 /\ over * over > distance_squared)

(* ------------------------------ aim_check ----------------------------- *)
\* Mutant: a missing camera replaced by the default one.
GetSingleOrDefault(cam) == IF IsSome(cam) THEN cam ELSE Some(DefaultCamera)
\* q_camera.get_single(): Ok of the one camera's components, or Err (None)
\* when no camera entity exists.
GetSingle(cam) == cam

\* The messages of aim_check's two panic! calls.
NextMissing == Some("Next target missing!")
\* Mutant: a missing Ghost is passed over in silence.
GhostMissingIgnored == None
GhostMissing == Some("Ghost target missing!")

\* Mutant: the ray is tested in every arm of the match.
HitTestedAny(state) == TRUE
\* The match arm of aim_check's loop that tests the ray: TargetState::Active.
HitTested(state) == state = "Active"

\* The live target entities in a state.
InState(ts, state) == {id \in DOMAIN ts : ts[id].state = state}

\* What the loop leaves in an Option local that each entity of the set
\* overwrites: None for no entity, else Some of the one iterated last (the
\* query's iteration order is not fixed: any of them).
LastOf(ids) == IF ids = {} THEN {None} ELSE {Some(id) : id \in ids}

\* Mutant: `hit` set without a test.
HitFlagAlways(r, ts) == TRUE
\* `hit` after the loop.
HitFlag(r, ts) ==
    \E id \in DOMAIN ts : HitTested(ts[id].state) /\ Intersects(r, ts[id].bounding)

\* Mutant: the promoted Next keeps the faded material.
PromoteNextKeepMaterial(t) == [t EXCEPT !.state = "Active"]
\* Old Next made the new Active with the un-faded material.
PromoteNext(t) == [t EXCEPT !.state = "Active", !.material = Arrow]

\* Mutant: the promoted Ghost is not made visible.
PromoteGhostStillHidden(t, new_ghost_pos) ==
    [t EXCEPT !.state = "Next",
              !.rotation = orient_target(t.translation, new_ghost_pos)]
\* Mutant: the promoted Ghost is made Active, passing over Next.
PromoteGhostToActive(t, new_ghost_pos) ==
    [t EXCEPT !.state = "Active",
              !.visibility = "Visible",
              !.rotation = orient_target(t.translation, new_ghost_pos)]
\* Mutant: the promoted Ghost is pointed at its own position, the
\* deadzone argument, instead of the position target_hit returned.
PromoteGhostAimedAtSelf(t, new_ghost_pos) ==
    [t EXCEPT !.state = "Next",
              !.visibility = "Visible",
              !.rotation = orient_target(t.translation, t.translation)]
\* Mutant: the promoted Ghost is given the un-faded material as well.
PromoteGhostUnfaded(t, new_ghost_pos) ==
    [t EXCEPT !.state = "Next",
              !.visibility = "Visible",
              !.material = Arrow,
              !.rotation = orient_target(t.translation, new_ghost_pos)]
\* Mutant: the promoted Ghost's state is not flipped to Next.
PromoteGhostStateKept(t, new_ghost_pos) ==
    [t EXCEPT !.visibility = "Visible",
              !.rotation = orient_target(t.translation, new_ghost_pos)]
\* Old Ghost cycled to Next and shown, then pointed at the new ghost.
PromoteGhost(t, new_ghost_pos) ==
    [t EXCEPT !.state = "Next",
              !.visibility = "Visible",
              !.rotation = orient_target(t.translation, new_ghost_pos)]

\* The aim_point and deadzone arguments of the spawn_target call in
\* target_hit, whose own `deadzone` argument is the old ghost's translation.
TargetHitAimPoint(deadzone) == None
\* Mutant: the replacement Ghost placed without a deadzone reference.
TargetHitNoDeadzone(deadzone) == None
TargetHitDeadzone(deadzone) == deadzone

\* Mutant: the hit target is despawned and no replacement is spawned.
TargetHitCmdsDespawnOnly(hit_target_id, new_id, new_ghost) ==
    <<DespawnCmd(hit_target_id)>>
\* Mutant: the hit target is not despawned.
TargetHitCmdsNoDespawn(hit_target_id, new_id, new_ghost) ==
    <<SpawnTargetCmd(new_id, new_ghost)>>
\* fn target_hit: the commands it queues, in order.
TargetHitCmds(hit_target_id, new_id, new_ghost) ==
    <<DespawnCmd(hit_target_id), SpawnTargetCmd(new_id, new_ghost)>>

\* The transition of aim_check's `if hit & (active_id != None)` branch, for
\* the entities the loop left in active_id, next_state/next_mat and
\* ghost_state, the id the spawn reserves and the direction spawn_target
\* draws.
Transition(ts, active_id, next_id, ghost_id, new_id, dir) ==
    LET base == [targets |-> ts, cmds |-> <<>>, calls |-> <<>>, spawned |-> 0,
                 panic |-> None]
    IN  IF ~IsSome(next_id)
        THEN [base EXCEPT !.panic = NextMissing]
        ELSE LET n   == Unwrap(next_id)
                 ts1 == [ts EXCEPT ![n] = PromoteNext(@)]
             IN  IF ~IsSome(ghost_id)
                 THEN [base EXCEPT !.targets = ts1,
                                   !.panic = GhostMissing]
                 ELSE LET g         == Unwrap(ghost_id)
                          old_pos   == Some(ts[g].translation)
                          new_ghost == spawn_target("Ghost",
                                                    TargetHitAimPoint(old_pos),
                                                    TargetHitDeadzone(old_pos), dir)
                      IN  [base EXCEPT
                             !.targets = [ts1 EXCEPT ![g] =
                                            PromoteGhost(@, new_ghost.translation)],
                             !.cmds = TargetHitCmds(Unwrap(active_id), new_id, new_ghost),
                             !.calls = <<SpawnCall(new_id, "Ghost",
                                                   TargetHitAimPoint(old_pos),
                                                   TargetHitDeadzone(old_pos))>>,
                             !.spawned = 1]

\* fn aim_check.
aim_check ==
    /\ pc = "Update"
    /\ "aim_check" \notin ran
    /\ ran' = ran \cup {"aim_check"}
    /\ IF ~IsSome(GetSingle(camera))
       THEN /\ ray' = None
            /\ hit' = FALSE
            /\ UNCHANGED <<pc, nextId, targets, cmds, spawnCalls, panic>>
       ELSE LET r == AimRay(Unwrap(GetSingle(camera)))
                h == HitFlag(r, targets)
            IN  /\ ray' = Some(r)
                /\ hit' = h
                /\ \E active_id \in LastOf(InState(targets, "Active")) :
                     IF ~(h /\ IsSome(active_id))
                     THEN UNCHANGED <<pc, nextId, targets, cmds, spawnCalls, panic>>
                     ELSE \E next_id \in LastOf(InState(targets, "Next")),
                             ghost_id \in LastOf(InState(targets, "Ghost")),
                             dir \in RandomDirs :
                            LET out == Transition(targets, active_id, next_id,
                                                  ghost_id, nextId, dir)
                            IN  /\ targets' = out.targets
                                /\ cmds' = cmds \o out.cmds
                                /\ nextId' = nextId + out.spawned
                                /\ spawnCalls' = IF out.calls = <<>>
                                                 THEN spawnCalls ELSE out.calls
                                /\ panic' = out.panic
                                /\ pc' = IF IsSome(out.panic) THEN "Panicked" ELSE pc
    /\ UNCHANGED <<frame, camera, keyLog, applied, before>>

(* --------------------------- apply deferred --------------------------- *)
\* The end of a schedule pass: every system has run, the queued commands
\* are applied in order and the next pass begins (the first frame after
\* Startup, the next frame after Update).
ApplyDeferred ==
    /\ pc \in {"Startup", "Update"}
    /\ ran = Systems(pc)
    /\ LET world == ApplyCommands([camera |-> camera, targets |-> targets], cmds)
       IN  /\ camera' = world.camera
           /\ targets' = world.targets
    /\ cmds' = <<>>
    /\ frame' = IF pc = "Update" THEN frame + 1 ELSE frame
    /\ pc' = "FixedUpdate"
    /\ ran' = {}
    /\ UNCHANGED <<nextId, keyLog, applied, ray, hit, spawnCalls, panic, before>>

Next ==
    \/ spawn_camera
    \/ spawn_initial_targets
    \/ RunFixedMainLoop
    \/ camera_control
    \/ aim_check
    \/ ApplyDeferred

Spec == Init /\ [][Next]_vars

(* ------------------------- far-camera frames -------------------------- *)
\* Camera translations the debug free-fly reaches with the rotation still
\* the identity: on and beside the -Z axis, at distances around MAX_RADIUS
\* from a target at TARGET_DISTANCE straight ahead, and beyond that target.
FarOrigins ==
    { <<x, 0, z>> : x \in {0, 900}, z \in {-9500, -8500, 11500, 12500, 13100} }

\* A frame boundary later in a run: the camera has been flown to one of
\* FarOrigins, the ring holds three targets placed and oriented as
\* spawn_target places a Ghost, a Next and an Active (written here with
\* the ids and calls of Startup), and one frame is left to run.  keyLog
\* restarts here.
InitFar ==
    /\ pc = "FixedUpdate"
    /\ ran = {}
    /\ frame = MaxFrames - 1
    /\ nextId = 5
    /\ \E o \in FarOrigins : camera = Some([DefaultCamera EXCEPT !.translation = o])
    /\ \E d1 \in RandomDirs, d2 \in RandomDirs, d3 \in RandomDirs :
         LET b == InitialBundles(d1, d2, d3)
         IN  /\ targets = ApplyCommands([camera |-> None, targets |-> <<>>],
                                        <<SpawnTargetCmd(2, b[1]),
                                          SpawnTargetCmd(3, b[2]),
                                          SpawnTargetCmd(4, b[3])>>).targets
             /\ spawnCalls = InitialCalls(b, 2)
    /\ cmds = <<>>
    /\ keyLog = <<>>
    /\ applied = None
    /\ ray = None
    /\ hit = FALSE
    /\ panic = None
    /\ before = <<>>

NextFar ==
    \/ RunFixedMainLoop
    \/ camera_control
    \/ aim_check
    \/ ApplyDeferred

SpecFar == InitFar /\ [][NextFar]_vars

(* --------------------------- partial worlds --------------------------- *)
\* f restricted to the keys in ks.
Restrict(f, ks) == [x \in ks |-> f[x]]

\* The Update and FixedUpdate systems are functions of the World they are
\* handed, and each guards itself against a World that lacks the camera
\* or one of the three targets.  No run from Init reaches such a World;
\* here the last frame begins on one: the camera present or not, and any
\* subset of a ring that spawn_target built.
InitPartial ==
    /\ pc = "FixedUpdate"
    /\ ran = {}
    /\ frame = MaxFrames - 1
    /\ nextId = 5
    /\ camera \in {None, Some(DefaultCamera)}
    /\ \E d1 \in RandomDirs, d2 \in RandomDirs, d3 \in RandomDirs :
         LET b    == InitialBundles(d1, d2, d3)
             ring == ApplyCommands([camera |-> None, targets |-> <<>>],
                                   <<SpawnTargetCmd(2, b[1]),
                                     SpawnTargetCmd(3, b[2]),
                                     SpawnTargetCmd(4, b[3])>>).targets
         IN  \E present \in SUBSET (DOMAIN ring) :
                targets = Restrict(ring, present)
    /\ cmds = <<>>
    /\ keyLog = <<>>
    /\ applied = None
    /\ ray = None
    /\ hit = FALSE
    /\ spawnCalls = <<>>
    /\ panic = None
    /\ before = <<>>

NextPartial ==
    \/ RunFixedMainLoop
    \/ camera_control
    \/ aim_check
    \/ ApplyDeferred

SpecPartial == InitPartial /\ [][NextPartial]_vars

(* ====================================================================== *)
(*                              properties                                *)
(* ====================================================================== *)
\* A frame's update pass begins: Startup's or the previous frame's
\* commands are applied and no Update system has run yet.
FrameBegins == pc = "FixedUpdate" \/ (pc = "Update" /\ ran = {})

\* The frame just completed had a hit on the Active target and its
\* deferred commands are applied.
AfterHitFrame == pc = "FixedUpdate" /\ frame >= 1 /\ hit

\* aim_check has run in the current frame with a camera to cast from.
AimChecked == pc = "Update" /\ "aim_check" \in ran /\ IsSome(ray)

\* This step is aim_check's run, with a camera to cast from.
AimCheckStep == "aim_check" \notin ran /\ "aim_check" \in ran' /\ IsSome(ray')

\* C1 (ring invariant): whenever a frame's update pass begins there are
\* exactly three targets, exactly one Active, one Next and one Ghost.
C1_RingInvariant ==
    FrameBegins =>
        /\ Cardinality(DOMAIN targets) = 3
        /\ \A st \in TargetStates : Cardinality(InState(targets, st)) = 1

\* A frame begins after a frame whose hit ran the transition.
C1_Witness ==
    /\ FrameBegins /\ frame >= 1 /\ hit
    /\ DOMAIN targets # DOMAIN before
    /\ Cardinality(DOMAIN targets) = 3

\* C2 (hit transition result): after a frame whose ray hit the Active
\* target, with the deferred commands applied, the target that was Next is
\* Active with the bright material, the one that was Ghost is Next and
\* visible, the one that was Active no longer exists, and exactly one new
\* target exists, which is Ghost, hidden and faded.
C2_HitTransitionResult ==
    AfterHitFrame =>
        /\ \A n \in InState(before, "Next") :
             /\ n \in DOMAIN targets
             /\ targets[n].state = "Active"
             /\ targets[n].material = Arrow
        /\ \A g \in InState(before, "Ghost") :
             /\ g \in DOMAIN targets
             /\ targets[g].state = "Next"
             /\ targets[g].visibility = "Visible"
        /\ \A a \in InState(before, "Active") : a \notin DOMAIN targets
        /\ \E new \in DOMAIN targets :
             /\ DOMAIN targets \ DOMAIN before = {new}
             /\ targets[new].state = "Ghost"
             /\ targets[new].visibility = "Hidden"
             /\ targets[new].material = ArrowFaded

\* The commands of a hit frame are applied and the frame had all three
\* targets when it began.
C2_Witness ==
    /\ AfterHitFrame
    /\ \A st \in TargetStates : InState(before, st) # {}
    /\ cmds = <<>>

\* The ray of the state intersects the bounding sphere of a target of the
\* frame's start that is in one of the states.
RayMeets(states) ==
    \E id \in DOMAIN before :
        /\ before[id].state \in states
        /\ Intersects(Unwrap(ray), before[id].bounding)

\* C3 (only the Active target is hit-tested): when aim_check's ray
\* intersects the bounding sphere of the Next or the Ghost target but not
\* that of the Active target, the run changes no target and queues no
\* command.
C3_OnlyActiveHitTested ==
    [][(AimCheckStep
          /\ (\E id \in DOMAIN targets :
                /\ targets[id].state \in {"Next", "Ghost"}
                /\ Intersects(Unwrap(ray'), targets[id].bounding))
          /\ ~(\E id \in DOMAIN targets :
                /\ targets[id].state = "Active"
                /\ Intersects(Unwrap(ray'), targets[id].bounding)))
        => (targets' = targets /\ cmds' = cmds /\ nextId' = nextId)]_vars

\* aim_check ran with its ray through the Next or Ghost sphere and not
\* through the Active one.
C3_Witness ==
    /\ AimChecked
    /\ RayMeets({"Next", "Ghost"})
    /\ ~RayMeets({"Active"})

\* C4 (no hit, no change): when aim_check's ray does not intersect the
\* Active target's bounding sphere, the run leaves every target as it was
\* (state, transform, visibility, material, bounding volume) and neither
\* creates nor destroys one.
C4_NoHitNoChange ==
    [][(AimCheckStep
          /\ ~(\E id \in DOMAIN targets :
                /\ targets[id].state = "Active"
                /\ Intersects(Unwrap(ray'), targets[id].bounding)))
        => (targets' = targets /\ cmds' = cmds /\ nextId' = nextId)]_vars

\* aim_check ran and its ray met no target at all.
C4_Witness ==
    /\ AimChecked
    /\ ~RayMeets(TargetStates)
    /\ targets = before

\* The spawn_target call of the transition of the frame just completed.
TransitionCall == spawnCalls[1]

\* The position of the target the transition promoted from Ghost to Next.
OldGhostPos(g) == before[g].translation

\* C5 as claimed: the replacement Ghost is placed with no deadzone
\* reference and with the old Ghost's position as aim point.
C5_Original ==
    AfterHitFrame =>
        \A g \in InState(before, "Ghost") :
            /\ TransitionCall.deadzone = None
            /\ TransitionCall.aim_point = Some(OldGhostPos(g))

\* C5 (amended): the replacement Ghost is placed with the old Ghost's
\* position as deadzone reference and with no aim point; its position is
\* the drawn candidate corrected against that reference and its rotation
\* is the plain face-to-center one.
C5_Amended ==
    AfterHitFrame =>
        \A g \in InState(before, "Ghost") :
            /\ Len(spawnCalls) = 1
            /\ TransitionCall.state = "Ghost"
            /\ TransitionCall.deadzone = Some(OldGhostPos(g))
            /\ TransitionCall.aim_point = None
            /\ TransitionCall.id \in DOMAIN targets \ DOMAIN before
            /\ \E dir \in RandomDirs :
                 targets[TransitionCall.id].translation
                   = TargetCenter(dir, Some(OldGhostPos(g)))
            /\ targets[TransitionCall.id].rotation.ctor = "from_rotation_arc"

\* A transition placed its Ghost inside the deadzone of the old Ghost's
\* position, so that the corrective rotation moved it.
C5_Witness ==
    /\ AfterHitFrame
    /\ \E g \in InState(before, "Ghost") :
         \E dir \in RandomDirs :
            /\ InDeadzone(VScale(dir, TARGET_DISTANCE), Some(OldGhostPos(g)))
            /\ targets[TransitionCall.id].translation
                 = TargetCenter(dir, Some(OldGhostPos(g)))
            /\ targets[TransitionCall.id].translation
                 # VScale(dir, TARGET_DISTANCE)

\* Startup is complete and no transition has run yet.
AfterStartup == pc = "FixedUpdate" /\ frame = 0

\* C6 (initial setup): the three targets are created in the order Ghost,
\* Next, Active; the Ghost with no deadzone and no aim point, the Next with
\* the Ghost's position as aim point and deadzone reference, the Active
\* with the Next's position as aim point and deadzone reference.
C6_InitialSetup ==
    AfterStartup =>
        /\ Len(spawnCalls) = 3
        /\ <<spawnCalls[1].state, spawnCalls[2].state, spawnCalls[3].state>>
             = <<"Ghost", "Next", "Active">>
        /\ spawnCalls[1].id < spawnCalls[2].id
        /\ spawnCalls[2].id < spawnCalls[3].id
        /\ \A i \in 1..3 : targets[spawnCalls[i].id].state = spawnCalls[i].state
        /\ spawnCalls[1].aim_point = None
        /\ spawnCalls[1].deadzone = None
        /\ spawnCalls[2].aim_point = Some(targets[spawnCalls[1].id].translation)
        /\ spawnCalls[2].deadzone = Some(targets[spawnCalls[1].id].translation)
        /\ spawnCalls[3].aim_point = Some(targets[spawnCalls[2].id].translation)
        /\ spawnCalls[3].deadzone = Some(targets[spawnCalls[2].id].translation)
        /\ targets[spawnCalls[2].id].rotation
             = Align(targets[spawnCalls[2].id].translation,
                     targets[spawnCalls[1].id].translation)
        /\ targets[spawnCalls[3].id].rotation
             = Align(targets[spawnCalls[3].id].translation,
                     targets[spawnCalls[2].id].translation)

\* Startup is complete with the Ghost and the Next at different places.
C6_Witness ==
    /\ AfterStartup
    /\ Len(spawnCalls) = 3
    /\ targets[spawnCalls[1].id].translation # targets[spawnCalls[2].id].translation
    /\ IsSome(camera)

\* C7 (visibility and material follow the state): at every frame boundary
\* the Active target is visible and bright, the Next target visible and
\* faded, the Ghost target hidden and faded.
C7_LooksFollowState ==
    FrameBegins =>
        \A id \in DOMAIN targets :
            /\ targets[id].state = "Active" =>
                 targets[id].visibility = "Visible" /\ targets[id].material = Arrow
            /\ targets[id].state = "Next" =>
                 targets[id].visibility = "Visible" /\ targets[id].material = ArrowFaded
            /\ targets[id].state = "Ghost" =>
                 targets[id].visibility = "Hidden" /\ targets[id].material = ArrowFaded

\* A frame boundary at which a target that began the last frame as the
\* hidden Ghost is the Next, and one that began it faded is the Active.
C7_Witness ==
    /\ AfterHitFrame
    /\ \E g \in DOMAIN before \cap DOMAIN targets :
         before[g].visibility = "Hidden" /\ targets[g].state = "Next"
    /\ \E n \in DOMAIN before \cap DOMAIN targets :
         before[n].material = ArrowFaded /\ targets[n].state = "Active"

\* The target the frame's aim_check tested was promoted: the target that
\* began the frame as Next is Active.
Promoted == \E n \in InState(before, "Next") : targets[n].state = "Active"

\* The parameter of the ray's closest approach to the point p, and the
\* squared distance of that closest approach: |(p - origin) x direction|^2.
ClosestParam(r, p) == Rnd(Dot(VSub(p, r.origin), r.direction), ONE)
ClosestDistSq(r, p) ==
    LET c == VRnd(Cross(VSub(p, r.origin), r.direction), ONE)
    IN  Dot(c, c)

\* The ray enters the sphere of radius rad around p beyond its max length:
\* ClosestParam - sqrt(rad^2 - ClosestDistSq) > max, decided on the squares.
EntersBeyondMax(r, p, rad) ==
    /\ ClosestParam(r, p) > r.max
    /\ (ClosestParam(r, p) - r.max) * (ClosestParam(r, p) - r.max)
         > rad * rad - ClosestDistSq(r, p)

\* C8 as claimed: the ray promotes if its closest approach to the Active
\* target's position P is at most R and at a parameter in [0, MAX_RADIUS],
\* and does not promote if the closest approach is greater than R or its
\* parameter exceeds MAX_RADIUS.
C8_Original ==
    AimChecked =>
        \A a \in InState(before, "Active") :
            LET r  == Unwrap(ray)
                P  == before[a].translation
                R  == before[a].bounding.radius
                tc == ClosestParam(r, P)
                d2 == ClosestDistSq(r, P)
            IN  /\ (d2 <= R * R /\ 0 <= tc /\ tc <= MAX_RADIUS * ONE) => Promoted
                /\ (d2 > R * R \/ tc > MAX_RADIUS * ONE) => ~Promoted

\* C8 (amended): the ray promotes if its closest approach to P is at most
\* R and at a parameter in [0, MAX_RADIUS], and does not promote if the
\* closest approach is greater than R or the ray enters the sphere beyond
\* MAX_RADIUS (closest-approach parameter minus the half chord
\* sqrt(R^2 - d^2) exceeds MAX_RADIUS).
C8_Amended ==
    AimChecked =>
        \A a \in InState(before, "Active") :
            LET r  == Unwrap(ray)
                P  == before[a].translation
                R  == before[a].bounding.radius
                tc == ClosestParam(r, P)
                d2 == ClosestDistSq(r, P)
            IN  /\ (d2 <= R * R /\ 0 <= tc /\ tc <= MAX_RADIUS * ONE) => Promoted
                /\ (d2 > R * R \/ EntersBeyondMax(r, P, R)) => ~Promoted

\* aim_check ran with the closest approach to the Active target inside
\* its radius but entering beyond MAX_RADIUS, and did not promote.
C8_Witness ==
    /\ AimChecked
    /\ \E a \in InState(before, "Active") :
         /\ ClosestDistSq(Unwrap(ray), before[a].translation)
              <= before[a].bounding.radius * before[a].bounding.radius
         /\ EntersBeyondMax(Unwrap(ray), before[a].translation,
                            before[a].bounding.radius)
    /\ ~Promoted

RECURSIVE SumPitch(_)
\* The sum of the pitch deltas of the frames of a key log.
SumPitch(log) == IF log = <<>> THEN 0 ELSE PitchTotal(Head(log)) + SumPitch(Tail(log))
RECURSIVE SumRoll(_)
\* The sum of the roll deltas of the frames of a key log.
SumRoll(log) == IF log = <<>> THEN 0 ELSE RollTotal(Head(log)) + SumRoll(Tail(log))

\* Pitch-up was pressed, and pitch-down was not, in every frame so far.
OnlyPitchUpSoFar ==
    \A i \in 1..Len(keyLog) :
        Pressed(keyLog[i], pitch_up_key) /\ ~Pressed(keyLog[i], pitch_down_key)

\* C9 (accumulator): after pitch-up was pressed in each of the N frames so
\* far and pitch-down in none, CameraAimState.pitch is N * pitch_rate.
C9_Accumulator ==
    (IsSome(camera) /\ OnlyPitchUpSoFar) =>
        Unwrap(camera).state.pitch = Len(keyLog) * pitch_rate

\* C10 (full accumulated rotation): whenever camera_control applies a
\* local rotation, its angles are yaw 0 and the sums of all pitch and roll
\* deltas of all frames so far, this frame's included.
C10_FullAccumulatedRotation ==
    IsSome(applied) =>
        Unwrap(applied) = <<0, SumPitch(keyLog), SumRoll(keyLog)>>

\* The pressed keys give no net rotation: no rotate key is pressed, or
\* each pressed one is pressed together with its opposite.
NoNetRotateInput(kbd) ==
    /\ Pressed(kbd, pitch_up_key) <=> Pressed(kbd, pitch_down_key)
    /\ Pressed(kbd, roll_left_key) <=> Pressed(kbd, roll_right_key)

\* The keys the last camera_control read.
LastKeys(log) == log[Len(log)]

\* This step is camera_control's run on an existing camera.
CameraControlStep ==
    "camera_control" \notin ran /\ "camera_control" \in ran' /\ IsSome(camera)

\* C11 (zero delta leaves the orientation): when camera_control runs in a
\* frame whose pitch and roll deltas are both zero (no rotate key pressed,
\* or opposing keys pressed together), the camera's rotation after the run
\* is the rotation before it and no local rotation is applied.
C11_ZeroDeltaKeepsOrientation ==
    [][(CameraControlStep /\ NoNetRotateInput(LastKeys(keyLog')))
        => (/\ Unwrap(camera').rotation = Unwrap(camera).rotation
            /\ applied' = None)]_vars

\* camera_control has run with pitch-up and pitch-down pressed together,
\* on a camera an earlier frame had rotated.
C11_Witness ==
    /\ pc = "Update" /\ "camera_control" \in ran
    /\ IsSome(camera)
    /\ Len(keyLog) >= 2
    /\ Pressed(LastKeys(keyLog), pitch_up_key)
    /\ Pressed(LastKeys(keyLog), pitch_down_key)
    /\ applied = None
    /\ Unwrap(camera).rotation # QUAT_IDENTITY

\* The raw candidate spawn_target samples when random_normalized_vec3()
\* returns dir.
RawCandidate(dir) == VScale(dir, TARGET_DISTANCE)

\* A deadzone reference is supplied and the candidate's squared distance
\* to it is less than DEADZONE_RADIUS_SQUARED.
WithinDeadzone(candidate, reference) ==
    /\ reference # None
    /\ Dot(VSub(candidate, reference[1]), VSub(candidate, reference[1]))
         < DEADZONE_RADIUS_SQUARED * ONE * ONE

\* The claimed relation between a raw candidate and the position returned
\* for it.
PlacedAsClaimed(candidate, reference, position) ==
    IF WithinDeadzone(candidate, reference)
    THEN position # candidate
    ELSE position = candidate

\* The deadzone references a placement may be given in this state: none,
\* or the position of a live target.
References == {None} \cup {Some(targets[id].translation) : id \in DOMAIN targets}

\* C12 (deadzone placement), at the frame boundaries, where the targets
\* spawned so far exist: for every direction drawn and every deadzone
\* reference, the position spawn_target returns (its target_center)
\* differs from the raw
\* candidate if a reference is supplied and the candidate's squared
\* distance to it is less than DEADZONE_RADIUS_SQUARED, and equals the raw
\* candidate otherwise; and every target the last spawn_target calls
\* created stands where this rule puts it for one of the directions.
C12_DeadzonePlacement ==
    pc = "FixedUpdate" =>
        /\ \A dir \in RandomDirs : \A reference \in References :
              PlacedAsClaimed(RawCandidate(dir), reference,
                              TargetCenter(dir, reference))
        /\ \A i \in 1..Len(spawnCalls) :
              spawnCalls[i].id \in DOMAIN targets =>
                \E dir \in RandomDirs :
                  /\ targets[spawnCalls[i].id].translation
                       = TargetCenter(dir, spawnCalls[i].deadzone)
                  /\ PlacedAsClaimed(RawCandidate(dir), spawnCalls[i].deadzone,
                                     targets[spawnCalls[i].id].translation)

\* Startup placed the Next target from a candidate that lay inside the
\* deadzone of the Ghost's position without coinciding with it, and the
\* Active target from a candidate outside the deadzone of the Next's.
C12_Witness ==
    /\ pc = "FixedUpdate" /\ frame = 0 /\ Len(spawnCalls) = 3
    /\ \E dir \in RandomDirs :
         /\ WithinDeadzone(RawCandidate(dir), spawnCalls[2].deadzone)
         /\ RawCandidate(dir) # spawnCalls[2].deadzone[1]
         /\ targets[spawnCalls[2].id].translation
              = TargetCenter(dir, spawnCalls[2].deadzone)
         /\ targets[spawnCalls[2].id].translation # RawCandidate(dir)
    /\ \E dir \in RandomDirs :
         /\ ~WithinDeadzone(RawCandidate(dir), spawnCalls[3].deadzone)
         /\ targets[spawnCalls[3].id].translation = RawCandidate(dir)

\* This step is aim_check's run, with or without a camera.
AimCheckRuns == "aim_check" \notin ran /\ "aim_check" \in ran'

\* This step is the fixed main loop, with the runs of normalize_aim.
FixedLoopRuns == pc = "FixedUpdate" /\ pc' = "Update"

\* The ray this step casts intersects the bounding sphere of a target
\* that is Active when the step begins.
ActiveIsHit ==
    \E id \in DOMAIN targets :
        /\ targets[id].state = "Active"
        /\ Intersects(Unwrap(ray'), targets[id].bounding)

\* C13 (fatal on missing slot): when aim_check detects a hit on the Active
\* target in a frame that has no Next target or no Ghost target, the run
\* ends in a panic: the app stops, nothing is despawned and nothing is
\* spawned.
C13_FatalOnMissingSlot ==
    [][(AimCheckStep /\ ActiveIsHit
          /\ (InState(targets, "Next") = {} \/ InState(targets, "Ghost") = {}))
        => (/\ panic' # None
            /\ pc' = "Panicked"
            /\ cmds' = cmds
            /\ nextId' = nextId
            /\ DOMAIN targets' = DOMAIN targets)]_vars

\* The app stopped on a hit in a frame that began with an Active and a
\* Next target and no Ghost.
C13_Witness ==
    /\ pc = "Panicked" /\ hit
    /\ InState(before, "Active") # {}
    /\ InState(before, "Next") # {}
    /\ InState(before, "Ghost") = {}
    /\ panic = Some("Ghost target missing!")

\* C14 (the missing-slot failure is unreachable): from the initial setup,
\* under every sequence of pressed keys, system orders, drawn directions
\* and hits, no frame reaches the "Next target missing!" or the "Ghost
\* target missing!" panic.
C14_NoMissingSlotAbort == panic = None /\ pc # "Panicked"

\* Two frames in a row hit their Active target and ran the transition,
\* each finding a Next and a Ghost.
C14_Witness ==
    /\ pc = "FixedUpdate" /\ frame >= 2 /\ hit
    /\ nextId >= 7
    /\ panic = None
    /\ \A st \in TargetStates : InState(before, st) # {}

\* C15 (no camera is a no-op): in a frame where no camera exists, the run
\* of aim_check and the runs of normalize_aim do nothing: no ray is cast
\* and no target tested, no target is changed, created or destroyed, no
\* camera appears and nothing panics.
C15_NoCameraNoOp ==
    [][(camera = None /\ (AimCheckRuns \/ FixedLoopRuns))
        => (/\ camera' = None
            /\ targets' = targets
            /\ cmds' = cmds
            /\ nextId' = nextId
            /\ panic' = None
            /\ pc' # "Panicked"
            /\ AimCheckRuns => (ray' = None /\ hit' = FALSE))]_vars

\* aim_check has run without a camera in a frame whose Active target the
\* default camera's ray would have hit, with no Ghost to promote.
C15_Witness ==
    /\ pc = "Update" /\ "aim_check" \in ran
    /\ camera = None
    /\ ray = None
    /\ InState(targets, "Ghost") = {}
    /\ \E id \in InState(targets, "Active") :
         Intersects(AimRay(DefaultCamera), targets[id].bounding)

\* C16 (per-frame ordering): in every frame camera_control has run when
\* aim_check runs, so that the ray aim_check casts is the ray of the
\* camera pose the frame's input pass leaves.
C16_InputBeforeHitTest ==
    (pc = "Update" /\ "aim_check" \in ran /\ IsSome(camera)) =>
        /\ "camera_control" \in ran
        /\ ray = Some(AimRay(Unwrap(camera)))

\* C17 (promotion frame conditions): after a hit transition the target
\* promoted from Next to Active is as it was but for its state and its
\* material (position, orientation, bounding volume and visibility are
\* kept), and the target promoted from Ghost to Next is as it was but for
\* its state, its visibility and its orientation (position, bounding
\* volume and material are kept).
C17_PromotionFrame ==
    AfterHitFrame =>
        /\ \A n \in InState(before, "Next") :
             /\ n \in DOMAIN targets
             /\ targets[n] = [before[n] EXCEPT !.state = targets[n].state,
                                               !.material = targets[n].material]
        /\ \A g \in InState(before, "Ghost") :
             /\ g \in DOMAIN targets
             /\ targets[g] = [before[g] EXCEPT !.state = targets[g].state,
                                               !.visibility = targets[g].visibility,
                                               !.rotation = targets[g].rotation]

\* A hit frame has ended: the promoted Next has a new material and the
\* rotation it had, the promoted Ghost a new rotation and the material
\* it had.
C17_Witness ==
    /\ AfterHitFrame
    /\ \E n \in InState(before, "Next") :
         /\ targets[n].material # before[n].material
         /\ targets[n].rotation = before[n].rotation
    /\ \E g \in InState(before, "Ghost") :
         /\ targets[g].rotation # before[g].rotation
         /\ targets[g].material = before[g].material

\* The rotation was last computed by orient_target for a target at pos
\* with this aim point.
AimedAt(rotation, pos, aim_point) ==
    /\ rotation.ctor = "align"
    /\ rotation.main = pos
    /\ rotation.secondary = Some(aim_point)

\* C18 (aim chain): at every frame boundary the Next target's orientation
\* was last computed with the current Ghost target's position as aim
\* point, and the Active target's with the current Next target's
\* position as aim point.
C18_AimChain ==
    FrameBegins =>
        /\ \A n \in InState(targets, "Next") : \A g \in InState(targets, "Ghost") :
             AimedAt(targets[n].rotation, targets[n].translation,
                     targets[g].translation)
        /\ \A a \in InState(targets, "Active") : \A n \in InState(targets, "Next") :
             AimedAt(targets[a].rotation, targets[a].translation,
                     targets[n].translation)

\* A frame boundary after a hit: the Next began the last frame as the
\* Ghost, the Ghost is new and stands elsewhere than the Next, and the
\* Active began the last frame as the Next.
C18_Witness ==
    /\ pc = "FixedUpdate" /\ frame >= 1 /\ hit
    /\ \E n \in InState(targets, "Next") : \E g \in InState(targets, "Ghost") :
         /\ n \in DOMAIN before /\ before[n].state = "Ghost"
         /\ g \notin DOMAIN before
         /\ targets[g].translation # targets[n].translation
         /\ before[n].rotation # targets[n].rotation
    /\ \E a \in InState(targets, "Active") :
         a \in DOMAIN before /\ before[a].state = "Next"

\* The queued commands with this op.
CmdsOf(op) == {i \in 1..Len(cmds) : cmds[i].op = op}

\* C19 (at most one transition per frame): a frame whose aim_check
\* reported a hit queues exactly one despawn, of the target that was
\* Active when the frame began, and exactly one spawn; when the frame has
\* ended exactly one target is gone and exactly one is new, and the
\* target promoted to Active in the frame is still there and Active (it
\* was not itself hit-tested and cycled on), whether or not the frame's
\* ray intersects its bounding sphere.
C19_OneTransitionPerFrame ==
    /\ (pc = "Update" /\ "aim_check" \in ran /\ hit) =>
          /\ Len(cmds) = 2
          /\ Cardinality(CmdsOf("spawn")) = 1
          /\ \E i \in CmdsOf("despawn") :
                /\ CmdsOf("despawn") = {i}
                /\ cmds[i].id \in InState(before, "Active")
    /\ AfterHitFrame =>
          /\ Cardinality(DOMAIN before \ DOMAIN targets) = 1
          /\ Cardinality(DOMAIN targets \ DOMAIN before) = 1
          /\ \A n \in InState(before, "Next") :
                n \in DOMAIN targets /\ targets[n].state = "Active"
          /\ \A g \in InState(before, "Ghost") :
                g \in DOMAIN targets /\ targets[g].state = "Next"

\* A hit frame has ended whose ray also went through the bounding sphere
\* of the target it promoted to Active.
C19_Witness ==
    /\ AfterHitFrame
    /\ \E n \in InState(before, "Next") :
         /\ Intersects(Unwrap(ray), before[n].bounding)
         /\ targets[n].state = "Active"
    /\ Cardinality(DOMAIN targets) = 3

\* C20 (bounding volume follows the position): at every frame boundary
\* every target's bounding volume is the sphere of radius TARGET_RADIUS
\* centered at the target's own position.
C20_BoundingAtPosition ==
    FrameBegins =>
        \A id \in DOMAIN targets :
            /\ targets[id].bounding.center = targets[id].translation
            /\ targets[id].bounding.radius = TARGET_RADIUS * ONE

\* A frame boundary with a target that the deadzone adjustment moved off
\* its raw candidate when it was created and that has since been promoted
\* and re-oriented.
C20_Witness ==
    /\ FrameBegins /\ frame >= 1
    /\ \E id \in DOMAIN targets \cap DOMAIN before :
         /\ before[id].state = "Ghost" /\ targets[id].state = "Next"
         /\ targets[id].rotation # before[id].rotation
         /\ \A dir \in RandomDirs : targets[id].translation # RawCandidate(dir)

\* One step of a target's life: Ghost to Next, or Next to Active.
Advances(from, to) ==
    \/ from = "Ghost" /\ to = "Next"
    \/ from = "Next" /\ to = "Active"

\* C21 (monotone lifecycle): in every step, a target that stays alive
\* keeps its state or advances one step, Ghost to Next or Next to Active,
\* and it advances only in a run of aim_check that reported a hit; a
\* target that ceases to exist was Active; and a target that comes into
\* existence after Startup is a Ghost.
C21_MonotoneLifecycle ==
    [][/\ \A id \in DOMAIN targets \cap DOMAIN targets' :
            \/ targets'[id].state = targets[id].state
            \/ /\ Advances(targets[id].state, targets'[id].state)
               /\ AimCheckRuns /\ hit'
       /\ \A id \in DOMAIN targets \ DOMAIN targets' :
            targets[id].state = "Active"
       /\ \A id \in DOMAIN targets' \ DOMAIN targets :
            pc # "Startup" => targets'[id].state = "Ghost"]_vars

\* After two hit frames: the target the first transition created as the
\* Ghost is the Next, and the setup's Ghost is the Active.
C21_Witness ==
    /\ pc = "FixedUpdate" /\ frame >= 2 /\ hit /\ nextId >= 7
    /\ \E id \in InState(targets, "Next") :
         /\ id >= nextId - 2
         /\ id \in DOMAIN before /\ before[id].state = "Ghost"
    /\ \E id \in InState(targets, "Active") :
         /\ id < nextId - 2
         /\ id \in DOMAIN before /\ before[id].state = "Next"
    /\ \E id \in InState(targets, "Ghost") : id \notin DOMAIN before

\* The pressed keys give no net debug movement: no debug key is pressed,
\* or each pressed one is pressed together with its opposite.
NoNetDebugInput(kbd) ==
    /\ Pressed(kbd, "KeyS") <=> Pressed(kbd, "KeyR")
    /\ Pressed(kbd, "KeyT") <=> Pressed(kbd, "KeyA")
    /\ Pressed(kbd, "KeyC") <=> Pressed(kbd, "KeyD")

\* The rotate keys and the debug movement keys.
RotateKeys == {pitch_up_key, pitch_down_key, roll_left_key, roll_right_key}
DebugKeys == {"KeyA", "KeyT", "KeyS", "KeyR", "KeyC", "KeyD"}

\* Frames in which rotate keys and debug keys are pressed together.
MixedKeys == { {"ArrowUp", "KeyC"}, {"ArrowDown", "ArrowLeft", "KeyT", "KeyR"} }

\* C22 (camera frame conditions): a run of camera_control with no net
\* debug movement (rotate keys only, or none) leaves the camera's
\* position, one with no net rotation (debug keys only, or none) leaves
\* its orientation, and no run of camera_control changes a target or
\* queues a command; with rotate and debug keys pressed together the
\* position camera_control computes is the one it computes for the debug
\* keys alone and the local rotation it applies the one for the rotate
\* keys alone (a statement about the pose the run starts from, evaluated
\* once per pose, on the run that reads no key); a run of aim_check leaves
\* the camera as it was.
C22_CameraFrame ==
    [][/\ CameraControlStep =>
            /\ NoNetDebugInput(LastKeys(keyLog')) =>
                 Unwrap(camera').translation = Unwrap(camera).translation
            /\ NoNetRotateInput(LastKeys(keyLog')) =>
                 Unwrap(camera').rotation = Unwrap(camera).rotation
            /\ LastKeys(keyLog') = {} => \A kbd \in MixedKeys :
                 /\ DebugTranslate(Unwrap(camera), kbd)
                      = DebugTranslate(Unwrap(camera), kbd \ RotateKeys)
                 /\ LocalRotation(Unwrap(camera), kbd)
                      = LocalRotation(Unwrap(camera), kbd \ DebugKeys)
            /\ targets' = targets
            /\ cmds' = cmds
       /\ AimCheckRuns => camera' = camera]_vars

\* Both Update systems have run in a frame whose keys were debug keys
\* only, on a camera that earlier frames had rotated, and the frame's
\* aim_check hit the Active target.
C22_Witness ==
    /\ pc = "Update" /\ ran = {"camera_control", "aim_check"}
    /\ IsSome(camera)
    /\ Len(keyLog) >= 2
    /\ ~NoNetDebugInput(LastKeys(keyLog))
    /\ NoNetRotateInput(LastKeys(keyLog))
    /\ Unwrap(camera).rotation # QUAT_IDENTITY
    /\ Unwrap(camera).translation # CameraSettingsPos
    /\ hit

====
